---- MODULE Spec2Model ----
(***************************************************************************)
(* A model of internal/proxy/mongo.go: the Replset connection manager      *)
(* (Connect, Disconnect, SendMessage under r.mu), the transport            *)
(* (sendRequest, readResponse over a byte stream) and the header codec     *)
(* (serializeHeader, and the decoding readResponse performs).              *)
(*                                                                         *)
(* Nine specifications share the module:                                   *)
(*   Spec       goroutines calling Connect, Disconnect and SendMessage     *)
(*              concurrently                                               *)
(*   SpecLive   Spec with the progress the scheduler and the peer give     *)
(*   SpecApi    Spec with GetNodes and IsConnected called as well          *)
(*   SpecSeq    one goroutine calling the Replset (sequential use)         *)
(*   SpecNodes  one goroutine that also calls GetNodes and writes to the   *)
(*              slices it was handed                                       *)
(*   SpecRead   readResponse on one response frame, byte by byte           *)
(*   SpecStream readResponse over several exchanges on one connection      *)
(*   SpecCodec  serializeHeader and the decoding of its 16 bytes           *)
(*   SpecMsg    the bytes SendQuery, SendCommand and sendRequest build     *)
(***************************************************************************)
EXTENDS Integers, Sequences, FiniteSets, TLC

(***************************************************************************)
(* Bounds of the model.                                                    *)
(***************************************************************************)
MaxNodes == 3       \* longest configured node list
MaxOps == 3         \* calls started on the Replset in one run
MaxPayload == 2     \* longest payload, query, command or document, in bytes
MaxDocs == 2        \* most documents in one SendCommand call

Addrs == {"a", "b"}             \* node addresses
Callers == {"g1", "g2"}         \* goroutines calling the Replset
SeqCallers == {"g1"}            \* sequential use: one goroutine

(***************************************************************************)
(* Program constants.                                                      *)
(***************************************************************************)
HeaderSize == 16
OpQuery == 2004
OpMsg == 2013

MaxInt32 == 2147483647
MinInt32 == -MaxInt32 - 1

VARIABLES
    \* ---- the Replset (struct Replset) ----
    nodes,      \* r.nodes: the configured addresses, in order
    conns,      \* r.conns: address -> socket (a function on a subset of Addrs)
    requestID,  \* r.requestID, an int32
    mu,         \* r.mu, the sync.RWMutex
    \* ---- the environment ----
    socks,      \* every socket net.DialTimeout returned, by socket id
    \* ---- the calling goroutines ----
    pc,         \* where each goroutine is
    loc,        \* the locals and the return value of its current call
    \* ---- history ----
    ops,        \* calls started so far
    lastCall,   \* how the most recent Connect or Disconnect returned
    base,       \* requests the Replset made before this run began
    written,    \* the request ids of this run's write attempts, in order
    \* ---- readResponse on one frame (SpecRead) ----
    intBits,    \* width of Go's int on the platform: 32 or 64
    frame,      \* what the peer sent: the header fields and the payload
    stream,     \* the bytes of the connection not yet consumed
    rpc,        \* where readResponse is
    hdr,        \* headerBytes after the first conn.Read
    rres,       \* readResponse's locals and result
    turn,       \* the exchanges begun on the connection (SpecStream)
    \* ---- the header codec (SpecCodec) ----
    hin,        \* a MessageHeader
    wire,       \* serializeHeader(hin)
    hout,       \* the four fields decoded from wire
    cpc,        \* where the codec run is
    \* ---- GetNodes (SpecNodes) ----
    given,      \* the node list NewReplset was given
    handed,     \* the slices GetNodes has returned, in order
    \* ---- building a request (SpecMsg) ----
    mcall,      \* the call: SendMessage, SendQuery or SendCommand with its arguments
    msg,        \* the opCode and payload that reach SendMessage
    mwrites,    \* the buffers given to conn.Write, in order
    mpc         \* where the call is

mgrVars == <<nodes, conns, requestID, mu, socks, pc, loc, ops, lastCall, base, written>>
rdVars == <<intBits, frame, stream, rpc, hdr, rres, turn>>
cdVars == <<hin, wire, hout, cpc>>
ndVars == <<given, handed>>
msgVars == <<mcall, msg, mwrites, mpc>>
vars == <<nodes, conns, requestID, mu, socks, pc, loc, ops, lastCall, base, written,
          intBits, frame, stream, rpc, hdr, rres, turn, hin, wire, hout, cpc,
          given, handed, mcall, msg, mwrites, mpc>>

(***************************************************************************)
(* 32-bit arithmetic. The request-id counter is an int32 held as a number  *)
(* of MinInt32..MaxInt32. Values that can leave that range (a uint32, a    *)
(* 64-bit int) are held as [hi, lo], the number hi * 2^16 + lo with lo in  *)
(* 0..65535, so that no width is lost.                                     *)
(***************************************************************************)
\* faulty variant: the counter restarts at 0 instead of wrapping to MinInt32
Int32IncToZero(x) == IF x = MaxInt32 THEN 0 ELSE x + 1

\* r.requestID++ on an int32: two's complement, MaxInt32 + 1 is MinInt32
Int32Inc(x) == IF x = MaxInt32 THEN MinInt32 ELSE x + 1

Half == 256 * 256

Big(x) == [hi |-> x \div Half, lo |-> x % Half]

\* uint32(x): the low 32 bits, unsigned
ToUint32(b) == [hi |-> b.hi % Half, lo |-> b.lo]

\* int32(x): the low 32 bits, signed
ToInt32(b) ==
    LET h == b.hi % Half IN [hi |-> IF h >= Half \div 2 THEN h - Half ELSE h, lo |-> b.lo]

\* x - k for a small k >= 0
BigSub(b, k) == LET l == b.lo - k IN [hi |-> b.hi + (l \div Half), lo |-> l % Half]

BigNeg(b) == b.hi < 0

\* min(x, k) for x >= 0 and a small k >= 0
BigMin(b, k) == IF b.hi > 0 \/ b.lo > k THEN k ELSE b.lo

(***************************************************************************)
(* The empty values.                                                       *)
(***************************************************************************)
NoOne == "none"
NoErr == "nil"
NoSock == 0
EmptyMap == [a \in {} |-> NoSock]

NodeLists == UNION {[1..n -> Addrs] : n \in 0..MaxNodes}

NoLoc == [op |-> "none", i |-> 0, opened |-> {}, conn |-> NoSock, tmp |-> 0, id |-> 0,
          err |-> NoErr, errNode |-> "", resp |-> NoOne, io |-> 0,
          order |-> <<>>, fails |-> {}, empty |-> FALSE]

\* NewReplset(nodes): the zero requestID, an empty map, an unlocked mutex
NewReplset(ns) ==
    /\ nodes = ns
    /\ conns = EmptyMap
    /\ requestID = 0
    /\ mu = [writer |-> NoOne, readers |-> {}, pending |-> {}]

MgrIdle ==
    /\ socks = <<>>
    /\ pc = [c \in Callers |-> "idle"]
    /\ loc = [c \in Callers |-> NoLoc]
    /\ ops = 0
    /\ lastCall = "none"
    /\ written = <<>>

RdIdle ==
    /\ intBits = 64
    /\ frame = <<>>
    /\ stream = <<>>
    /\ rpc = "off"
    /\ hdr = <<>>
    /\ rres = <<>>
    /\ turn = 0

CdIdle ==
    /\ hin = <<>>
    /\ wire = <<>>
    /\ hout = <<>>
    /\ cpc = "off"

\* no slice handed out yet; r.nodes is the list NewReplset was given
NdIdle ==
    /\ given = nodes
    /\ handed = <<>>

MsgIdle ==
    /\ mcall = <<>>
    /\ msg = <<>>
    /\ mwrites = <<>>
    /\ mpc = "off"

Init ==
    /\ \E ns \in NodeLists : NewReplset(ns)
    /\ base = 0
    /\ MgrIdle
    /\ RdIdle
    /\ CdIdle
    /\ NdIdle
    /\ MsgIdle

\* what a step of the Replset leaves alone
MgrOnly == UNCHANGED <<nodes, base, rdVars, cdVars, ndVars, msgVars>>

(***************************************************************************)
(* sync.RWMutex. Lock announces a pending writer, which keeps new readers  *)
(* out, and is granted once no reader and no writer holds the mutex. A     *)
(* call that is blocked and one that has not begun yet differ in nothing   *)
(* another goroutine can see, so a writer counts as pending from its call. *)
(***************************************************************************)
CallLock(c) == [mu EXCEPT !.pending = @ \cup {c}]
\* faulty variant: Lock does not wait for the readers
CanLockPastReaders(c) == mu.writer = NoOne
CanLock(c) == mu.writer = NoOne /\ mu.readers = {}
Locked(c) == [mu EXCEPT !.writer = c, !.pending = @ \ {c}]
Unlocked(c) == [mu EXCEPT !.writer = NoOne]
\* faulty variant: RLock does not wait for the writer
CanRLockPastWriter(c) == TRUE
CanRLock(c) == mu.writer = NoOne /\ mu.pending = {}
RLocked(c) == [mu EXCEPT !.readers = @ \cup {c}]
\* faulty variant: a return path without r.mu.RUnlock()
RUnlockedNever(c) == mu
RUnlocked(c) == [mu EXCEPT !.readers = @ \ {c}]

(***************************************************************************)
(* closeConnections: Close on every value of the map, in the order the     *)
(* range statement happens to visit the keys; the last failure is kept,    *)
(* and the map is replaced by an empty one.                                *)
(***************************************************************************)
\* faulty variant: the loop returns at the first Close that fails
RECURSIVE CloseLoopStop(_, _, _)
CloseLoopStop(order, fails, acc) ==
    IF order = <<>> THEN acc
    ELSE LET node == Head(order)
             next == [closed |-> acc.closed \cup {conns[node]},
                      lastErr |-> IF node \in fails THEN node ELSE acc.lastErr]
         IN IF node \in fails THEN next ELSE CloseLoopStop(Tail(order), fails, next)

RECURSIVE CloseLoop(_, _, _)
CloseLoop(order, fails, acc) ==
    IF order = <<>> THEN acc
    ELSE LET node == Head(order) IN
         CloseLoop(Tail(order), fails,
                   [closed |-> acc.closed \cup {conns[node]},
                    lastErr |-> IF node \in fails THEN node ELSE acc.lastErr])

\* the orders in which range can visit the keys of the map
Orders(keys) ==
    {o \in [1..Cardinality(keys) -> keys] : \A i, j \in DOMAIN o : i # j => o[i] # o[j]}

\* faulty variant: the map is not replaced: r.conns = make(...) is missing
closeConnectionsKeepMap(order, fails) ==
    LET r == CloseLoop(order, fails, [closed |-> {}, lastErr |-> NoErr])
    IN [closed |-> r.closed, lastErr |-> r.lastErr, conns |-> conns]

closeConnections(order, fails) ==
    LET r == CloseLoop(order, fails, [closed |-> {}, lastErr |-> NoErr])
    IN [closed |-> r.closed, lastErr |-> r.lastErr, conns |-> EmptyMap]

\* conn.Close() was called on the sockets of `closed`: what was in flight on them is dropped
CloseAll(closed) ==
    [s \in DOMAIN socks |->
        IF s \in closed THEN [socks[s] EXCEPT !.closed = TRUE, !.req = <<>>, !.resp = <<>>]
        ELSE socks[s]]

\* the connection is lost: every later Write and Read on it fails
Broken(s) == [socks EXCEPT ![s].broken = TRUE, ![s].req = <<>>, ![s].resp = <<>>]

(***************************************************************************)
(* Connect.                                                                *)
(***************************************************************************)
StartCall(c, op) ==
    /\ pc[c] = "idle"
    /\ ops < MaxOps
    /\ ops' = ops + 1
    /\ loc' = [loc EXCEPT ![c] = [NoLoc EXCEPT !.op = op]]

\* Connect is called: r.mu.Lock() begins
ConnectCall(c) ==
    /\ StartCall(c, "Connect")
    /\ pc' = [pc EXCEPT ![c] = "lock"]
    /\ mu' = CallLock(c)
    /\ UNCHANGED <<conns, requestID, socks, lastCall, written>>
    /\ MgrOnly

\* r.mu.Lock() returns
LockAcquire(c) ==
    /\ pc[c] = "lock"
    /\ CanLock(c)
    /\ mu' = Locked(c)
    /\ pc' = [pc EXCEPT ![c] = IF loc[c].op = "Connect" THEN "dial" ELSE "close"]
    /\ loc' = [loc EXCEPT ![c].i = 1]
    /\ UNCHANGED <<conns, requestID, socks, ops, lastCall, written>>
    /\ MgrOnly

\* the map after r.conns[node] = conn
MapPut(m, node, s) == [a \in DOMAIN m \cup {node} |-> IF a = node THEN s ELSE m[a]]

NewSock(node) == [addr |-> node, closed |-> FALSE, broken |-> FALSE, req |-> <<>>, resp |-> <<>>]

\* net.DialTimeout succeeds for r.nodes[i]
ConnectDialOk(c) ==
    /\ pc[c] = "dial"
    /\ loc[c].i <= Len(nodes)
    /\ LET node == nodes[loc[c].i]
           s == Len(socks) + 1
       IN /\ socks' = Append(socks, NewSock(node))
          /\ conns' = MapPut(conns, node, s)
          /\ loc' = [loc EXCEPT ![c].i = @ + 1, ![c].opened = @ \cup {s}, ![c].io = @ + 1]
    /\ UNCHANGED <<requestID, mu, pc, ops, lastCall, written>>
    /\ MgrOnly

\* net.DialTimeout fails for r.nodes[i]: closeConnections, then the error
ConnectDialFail(c) ==
    /\ pc[c] = "dial"
    /\ loc[c].i <= Len(nodes)
    /\ \E order \in Orders(DOMAIN conns) :
         LET r == closeConnections(order, {}) IN
         /\ socks' = CloseAll(r.closed)
         /\ conns' = r.conns
    /\ loc' = [loc EXCEPT ![c].err = "dial", ![c].errNode = nodes[loc[c].i], ![c].io = @ + 1]
    /\ mu' = Unlocked(c)
    /\ pc' = [pc EXCEPT ![c] = "done"]
    /\ lastCall' = "connect_err"
    /\ UNCHANGED <<requestID, ops, written>>
    /\ MgrOnly

\* the loop is over: return nil
ConnectReturn(c) ==
    /\ pc[c] = "dial"
    /\ loc[c].i > Len(nodes)
    /\ mu' = Unlocked(c)
    /\ pc' = [pc EXCEPT ![c] = "done"]
    /\ lastCall' = "connect_ok"
    /\ UNCHANGED <<conns, requestID, socks, loc, ops, written>>
    /\ MgrOnly

(***************************************************************************)
(* Disconnect.                                                             *)
(***************************************************************************)
DisconnectCall(c) ==
    /\ StartCall(c, "Disconnect")
    /\ pc' = [pc EXCEPT ![c] = "lock"]
    /\ mu' = CallLock(c)
    /\ UNCHANGED <<conns, requestID, socks, lastCall, written>>
    /\ MgrOnly

\* faulty variant: closing the connections also restarts the request ids
DisconnectCloseResets(c) ==
    /\ pc[c] = "close"
    /\ \E order \in Orders(DOMAIN conns), fails \in SUBSET (DOMAIN conns) :
         LET r == closeConnections(order, fails) IN
         /\ socks' = CloseAll(r.closed)
         /\ conns' = r.conns
         /\ loc' = [loc EXCEPT ![c].err = IF r.lastErr = NoErr THEN NoErr ELSE "close",
                               ![c].errNode = IF r.lastErr = NoErr THEN "" ELSE r.lastErr,
                               ![c].order = order, ![c].fails = fails]
    /\ mu' = Unlocked(c)
    /\ pc' = [pc EXCEPT ![c] = "done"]
    /\ lastCall' = "disconnect"
    /\ requestID' = 0
    /\ UNCHANGED <<ops, written>>
    /\ MgrOnly

\* return r.closeConnections(); Close fails on the sockets of the nodes in `fails`
DisconnectClose(c) ==
    /\ pc[c] = "close"
    /\ \E order \in Orders(DOMAIN conns), fails \in SUBSET (DOMAIN conns) :
         LET r == closeConnections(order, fails) IN
         /\ socks' = CloseAll(r.closed)
         /\ conns' = r.conns
         /\ loc' = [loc EXCEPT ![c].err = IF r.lastErr = NoErr THEN NoErr ELSE "close",
                               ![c].errNode = IF r.lastErr = NoErr THEN "" ELSE r.lastErr,
                               ![c].order = order, ![c].fails = fails]
    /\ mu' = Unlocked(c)
    /\ pc' = [pc EXCEPT ![c] = "done"]
    /\ lastCall' = "disconnect"
    /\ UNCHANGED <<requestID, ops, written>>
    /\ MgrOnly

\* IsConnected: len(r.conns) > 0
IsConnected == Cardinality(DOMAIN conns) > 0

(***************************************************************************)
(* SendMessage. Here the transport is taken at its best: conn.Write sends  *)
(* the whole request and readResponse returns one whole response frame.    *)
(* What readResponse does with the bytes of a frame is SpecRead's matter.  *)
(* r.requestID++ under the read lock is a load and a store that other      *)
(* readers can interleave with, and requestID := r.requestID a second load.*)
(***************************************************************************)
\* SendMessage is called: r.mu.RLock() begins
SendCall(c) ==
    /\ StartCall(c, "SendMessage")
    /\ pc' = [pc EXCEPT ![c] = "rlock"]
    /\ UNCHANGED <<conns, requestID, mu, socks, lastCall, written>>
    /\ MgrOnly

\* r.mu.RLock() returns, in SendMessage, GetNodes or IsConnected
RLockAcquire(c) ==
    /\ pc[c] = "rlock"
    /\ CanRLock(c)
    /\ mu' = RLocked(c)
    /\ pc' = [pc EXCEPT ![c] = CASE loc[c].op = "GetNodes" -> "copy"
                                  [] loc[c].op = "IsConnected" -> "isconn"
                                  [] OTHER -> "check"]
    /\ UNCHANGED <<conns, requestID, socks, loc, ops, lastCall, written>>
    /\ MgrOnly

\* faulty variant: the check of the map is missing
NoConnectionsUnchecked == FALSE

\* len(r.conns) == 0
NoConnections == Cardinality(DOMAIN conns) = 0

\* for _, c := range r.conns { conn = c; break }: any value of the map, nil for an empty map
FirstConn == IF DOMAIN conns = {} THEN {NoSock} ELSE {conns[a] : a \in DOMAIN conns}

\* the check of the map; past it, the connection is chosen and r.requestID++ loads the counter
SendCheck(c) ==
    /\ pc[c] = "check"
    /\ IF NoConnections
       THEN /\ loc' = [loc EXCEPT ![c].err = "noconn", ![c].empty = (DOMAIN conns = {})]
            /\ mu' = RUnlocked(c)
            /\ pc' = [pc EXCEPT ![c] = "done"]
       ELSE /\ \E s \in FirstConn :
                 loc' = [loc EXCEPT ![c].conn = s, ![c].tmp = requestID,
                                    ![c].empty = (DOMAIN conns = {})]
            /\ mu' = mu
            /\ pc' = [pc EXCEPT ![c] = "inc_store"]
    /\ UNCHANGED <<conns, requestID, socks, ops, lastCall, written>>
    /\ MgrOnly

\* r.requestID++ stores the counter
SendIncStore(c) ==
    /\ pc[c] = "inc_store"
    /\ requestID' = Int32Inc(loc[c].tmp)
    /\ pc' = [pc EXCEPT ![c] = "id_load"]
    /\ UNCHANGED <<conns, mu, socks, loc, ops, lastCall, written>>
    /\ MgrOnly

\* requestID := r.requestID
SendIdLoad(c) ==
    /\ pc[c] = "id_load"
    /\ loc' = [loc EXCEPT ![c].id = requestID]
    /\ pc' = [pc EXCEPT ![c] = "write"]
    /\ UNCHANGED <<conns, requestID, mu, socks, ops, lastCall, written>>
    /\ MgrOnly

Usable(s) == s # NoSock /\ ~socks[s].closed /\ ~socks[s].broken

\* sendRequest: conn.Write succeeds, the request is on its way to the peer
SendWriteOk(c) ==
    /\ pc[c] = "write"
    /\ Usable(loc[c].conn)
    /\ socks' = [socks EXCEPT ![loc[c].conn].req = Append(@, [by |-> c, id |-> loc[c].id])]
    /\ written' = Append(written, loc[c].id)
    /\ loc' = [loc EXCEPT ![c].io = @ + 1]
    /\ pc' = [pc EXCEPT ![c] = "read"]
    /\ UNCHANGED <<conns, requestID, mu, ops, lastCall>>
    /\ MgrOnly

\* sendRequest: conn.Write fails (the connection is lost from here on), or conn is nil
SendWriteFail(c) ==
    /\ pc[c] = "write"
    /\ IF loc[c].conn = NoSock
       THEN /\ socks' = socks
            /\ loc' = [loc EXCEPT ![c].err = "panic"]
       ELSE /\ socks' = Broken(loc[c].conn)
            /\ loc' = [loc EXCEPT ![c].err = "write", ![c].io = @ + 1]
    /\ written' = Append(written, loc[c].id)
    /\ mu' = RUnlocked(c)
    /\ pc' = [pc EXCEPT ![c] = "done"]
    /\ UNCHANGED <<conns, requestID, ops, lastCall>>
    /\ MgrOnly

\* the peer answers the oldest request it has not answered yet
PeerReply(s) ==
    /\ socks[s].req # <<>>
    /\ ~socks[s].broken
    /\ socks' = [socks EXCEPT ![s].req = Tail(@), ![s].resp = Append(@, Head(socks[s].req))]
    /\ UNCHANGED <<conns, requestID, mu, pc, loc, ops, lastCall, written>>
    /\ MgrOnly

\* faulty variant: the response is read from any connection of the map
SendReadOkAnyConn(c) ==
    /\ pc[c] = "read"
    /\ \E a \in DOMAIN conns :
         /\ Usable(conns[a])
         /\ socks[conns[a]].resp # <<>>
         /\ socks' = [socks EXCEPT ![conns[a]].resp = Tail(@)]
         /\ loc' = [loc EXCEPT ![c].resp = Head(socks[conns[a]].resp).by, ![c].io = @ + 1]
    /\ mu' = RUnlocked(c)
    /\ pc' = [pc EXCEPT ![c] = "done"]
    /\ UNCHANGED <<conns, requestID, ops, lastCall, written>>
    /\ MgrOnly

\* readResponse returns the next response frame of the connection
SendReadOk(c) ==
    /\ pc[c] = "read"
    /\ Usable(loc[c].conn)
    /\ socks[loc[c].conn].resp # <<>>
    /\ socks' = [socks EXCEPT ![loc[c].conn].resp = Tail(@)]
    /\ loc' = [loc EXCEPT ![c].resp = Head(socks[loc[c].conn].resp).by, ![c].io = @ + 1]
    /\ mu' = RUnlocked(c)
    /\ pc' = [pc EXCEPT ![c] = "done"]
    /\ UNCHANGED <<conns, requestID, ops, lastCall, written>>
    /\ MgrOnly

\* faulty variant: a connection whose read failed is taken out of the map
SendReadFailDrops(c) ==
    /\ pc[c] = "read"
    /\ socks' = Broken(loc[c].conn)
    /\ conns' = [a \in {b \in DOMAIN conns : conns[b] # loc[c].conn} |-> conns[a]]
    /\ loc' = [loc EXCEPT ![c].err = "read", ![c].io = @ + 1]
    /\ mu' = RUnlocked(c)
    /\ pc' = [pc EXCEPT ![c] = "done"]
    /\ UNCHANGED <<requestID, ops, lastCall, written>>
    /\ MgrOnly

\* readResponse fails: conn.Read returns an error (the connection is lost from here on)
SendReadFail(c) ==
    /\ pc[c] = "read"
    /\ socks' = Broken(loc[c].conn)
    /\ loc' = [loc EXCEPT ![c].err = "read", ![c].io = @ + 1]
    /\ mu' = RUnlocked(c)
    /\ pc' = [pc EXCEPT ![c] = "done"]
    /\ UNCHANGED <<conns, requestID, ops, lastCall, written>>
    /\ MgrOnly

\* the caller takes the return value and is free to call again
Return(c) ==
    /\ pc[c] = "done"
    /\ pc' = [pc EXCEPT ![c] = "idle"]
    /\ loc' = [loc EXCEPT ![c] = NoLoc]
    /\ UNCHANGED <<conns, requestID, mu, socks, ops, lastCall, written>>
    /\ MgrOnly

Next ==
    \/ \E c \in Callers : ConnectCall(c)
    \/ \E c \in Callers : DisconnectCall(c)
    \/ \E c \in Callers : LockAcquire(c)
    \/ \E c \in Callers : ConnectDialOk(c)
    \/ \E c \in Callers : ConnectDialFail(c)
    \/ \E c \in Callers : ConnectReturn(c)
    \/ \E c \in Callers : DisconnectClose(c)
    \/ \E c \in Callers : SendCall(c)
    \/ \E c \in Callers : RLockAcquire(c)
    \/ \E c \in Callers : SendCheck(c)
    \/ \E c \in Callers : SendIncStore(c)
    \/ \E c \in Callers : SendIdLoad(c)
    \/ \E c \in Callers : SendWriteOk(c)
    \/ \E c \in Callers : SendWriteFail(c)
    \/ \E s \in DOMAIN socks : PeerReply(s)
    \/ \E c \in Callers : SendReadOk(c)
    \/ \E c \in Callers : SendReadFail(c)
    \/ \E c \in Callers : Return(c)

Spec == Init /\ [][Next]_vars

(***************************************************************************)
(* Progress. A goroutine that can take its next step takes it: a mutex     *)
(* that is free is granted, net.DialTimeout returns within its five        *)
(* seconds, conn.Write returns, and conn.Read returns once a response has  *)
(* arrived or the connection is lost. The peer answers every request it    *)
(* has received. Nothing makes conn.Read return while the peer is silent   *)
(* and the connection is up: SendMessage sets no deadline and does not     *)
(* look at its context.                                                    *)
(***************************************************************************)
\* the steps of goroutine c that the scheduler, the dial timeout and the kernel guarantee
Step(c) ==
    \/ LockAcquire(c)
    \/ ConnectDialOk(c)
    \/ ConnectDialFail(c)
    \/ ConnectReturn(c)
    \/ DisconnectClose(c)
    \/ RLockAcquire(c)
    \/ SendCheck(c)
    \/ SendIncStore(c)
    \/ SendIdLoad(c)
    \/ SendWriteOk(c)
    \/ SendWriteFail(c)
    \/ SendReadOk(c)
    \/ (~Usable(loc[c].conn) /\ SendReadFail(c))

Progress ==
    /\ \A c \in Callers : WF_vars(Step(c))
    /\ WF_vars(\E s \in DOMAIN socks : PeerReply(s))

SpecLive == Init /\ [][Next]_vars /\ Progress

(***************************************************************************)
(* The header codec. A MessageHeader is four int32 fields; on the wire     *)
(* each is uint32(field) as four little-endian bytes.                      *)
(***************************************************************************)
\* binary.LittleEndian.PutUint32(b, u)
PutUint32(u) == <<u.lo % 256, u.lo \div 256, u.hi % 256, u.hi \div 256>>

\* faulty variant: the bytes are combined most significant first
Uint32BigEndian(b) == [hi |-> b[2] + 256 * b[1], lo |-> b[4] + 256 * b[3]]

\* binary.LittleEndian.Uint32(b)
Uint32(b) == [hi |-> b[3] + 256 * b[4], lo |-> b[1] + 256 * b[2]]

\* serializeHeader(header)
serializeHeader(header) ==
    PutUint32(ToUint32(Big(header.MessageLength)))
        \o PutUint32(ToUint32(Big(header.RequestID)))
        \o PutUint32(ToUint32(Big(header.ResponseTo)))
        \o PutUint32(ToUint32(Big(header.OpCode)))

\* the four fields as readResponse decodes them from headerBytes: uint32 values
ParseHeader(headerBytes) ==
    [messageLength |-> Uint32(SubSeq(headerBytes, 1, 4)),
     requestID |-> Uint32(SubSeq(headerBytes, 5, 8)),
     responseTo |-> Uint32(SubSeq(headerBytes, 9, 12)),
     opCode |-> Uint32(SubSeq(headerBytes, 13, 16))]

\* the int32 values the header fields are drawn from
Int32Samples == {MinInt32, -1, 0, HeaderSize, OpMsg, 305419896, MaxInt32}

Headers == [MessageLength : Int32Samples, RequestID : Int32Samples,
            ResponseTo : Int32Samples, OpCode : Int32Samples]

MgrOff ==
    /\ NewReplset(<<>>)
    /\ base = 0
    /\ MgrIdle
    /\ NdIdle

InitCodec ==
    /\ hin \in Headers
    /\ wire = <<>>
    /\ hout = <<>>
    /\ cpc = "header"
    /\ MgrOff
    /\ RdIdle
    /\ MsgIdle

\* headerBytes := serializeHeader(header)
CodecSerialize ==
    /\ cpc = "header"
    /\ wire' = serializeHeader(hin)
    /\ cpc' = "bytes"
    /\ UNCHANGED <<hin, hout, mgrVars, rdVars, ndVars, msgVars>>

\* the four binary.LittleEndian.Uint32 calls of readResponse
CodecParse ==
    /\ cpc = "bytes"
    /\ hout' = ParseHeader(wire)
    /\ cpc' = "parsed"
    /\ UNCHANGED <<hin, wire, mgrVars, rdVars, ndVars, msgVars>>

NextCodec ==
    \/ CodecSerialize
    \/ CodecParse

SpecCodec == InitCodec /\ [][NextCodec]_vars

(***************************************************************************)
(* readResponse on a connection that carries one response frame. Each      *)
(* conn.Read(b) returns at least one byte and at most len(b), as many as    *)
(* have arrived; for an empty b it returns 0 at once.                       *)
(***************************************************************************)
PayloadBytes == {0, 7}
Payloads == UNION {[1..n -> PayloadBytes] : n \in 0..MaxPayload}

\* the messageLength values a peer may declare for a payload
Lengths(payload) == {MinInt32, -1, 0, HeaderSize - 1, HeaderSize + Len(payload)}

Zeros(n) == [i \in 1..n |-> 0]
Min(a, b) == IF a < b THEN a ELSE b
Drop(q, n) == SubSeq(q, n + 1, Len(q))

\* int(x) for a uint32 x, and the int arithmetic of the platform
PlatformInt(b) == IF intBits = 32 THEN ToInt32(b) ELSE b

\* the other header fields a peer may send in answer to the request with id 1
ResponseIds == [requestID : {1, -1}, responseTo : {1, 2}, opCode : {OpQuery, OpMsg}]

NoRes == [err |-> NoErr, hn |-> 0, messageLength |-> Big(0), payloadSize |-> Big(0),
          alloc |-> FALSE, reads |-> 0, pn |-> 0, got |-> <<>>]

InitRead ==
    /\ intBits \in {32, 64}
    /\ \E payload \in Payloads :
         \E ml \in Lengths(payload), ids \in ResponseIds :
            /\ frame = [MessageLength |-> ml, RequestID |-> ids.requestID,
                        ResponseTo |-> ids.responseTo, OpCode |-> ids.opCode,
                        payload |-> payload]
            /\ stream = serializeHeader(frame) \o payload
    /\ rpc = "start"
    /\ hdr = <<>>
    /\ rres = NoRes
    /\ turn = 1
    /\ MgrOff
    /\ CdIdle
    /\ MsgIdle

\* headerBytes := make([]byte, HeaderSize); _, err := conn.Read(headerBytes), err == nil
ReadHeader ==
    /\ rpc = "start"
    /\ \E n \in 1..Min(HeaderSize, Len(stream)) :
         /\ hdr' = SubSeq(stream, 1, n) \o Zeros(HeaderSize - n)
         /\ stream' = Drop(stream, n)
         /\ rres' = [rres EXCEPT !.hn = n]
    /\ rpc' = "parse"
    /\ UNCHANGED <<turn, intBits, frame, mgrVars, cdVars, ndVars, msgVars>>

\* conn.Read(headerBytes) returns an error
ReadHeaderFail ==
    /\ rpc = "start"
    /\ rres' = [rres EXCEPT !.err = "read"]
    /\ rpc' = "done"
    /\ UNCHANGED <<turn, intBits, frame, stream, hdr, mgrVars, cdVars, ndVars, msgVars>>

\* payloadSize := int(messageLength) - HeaderSize
PayloadSize(messageLength) == PlatformInt(BigSub(PlatformInt(messageLength), HeaderSize))

\* the header is parsed; a negative payloadSize is an error, otherwise the payload is allocated
ReadLength ==
    /\ rpc = "parse"
    /\ LET h == ParseHeader(hdr)
           payloadSize == PayloadSize(h.messageLength)
       IN IF BigNeg(payloadSize)
          THEN /\ rres' = [rres EXCEPT !.err = "framing", !.messageLength = h.messageLength,
                                       !.payloadSize = payloadSize]
               /\ rpc' = "done"
          ELSE /\ rres' = [rres EXCEPT !.messageLength = h.messageLength,
                                       !.payloadSize = payloadSize, !.alloc = TRUE]
               /\ rpc' = "payload"
    /\ UNCHANGED <<turn, intBits, frame, stream, hdr, mgrVars, cdVars, ndVars, msgVars>>

\* _, err = conn.Read(payload), err == nil; return payload, nil
ReadPayload ==
    /\ rpc = "payload"
    /\ IF rres.payloadSize = Big(0)
       THEN /\ rres' = [rres EXCEPT !.reads = @ + 1]
            /\ stream' = stream
       ELSE \E n \in 1..BigMin(rres.payloadSize, Len(stream)) :
              /\ rres' = [rres EXCEPT !.reads = @ + 1, !.pn = n, !.got = SubSeq(stream, 1, n)]
              /\ stream' = Drop(stream, n)
    /\ rpc' = "done"
    /\ UNCHANGED <<turn, intBits, frame, hdr, mgrVars, cdVars, ndVars, msgVars>>

\* conn.Read(payload) returns an error
ReadPayloadFail ==
    /\ rpc = "payload"
    /\ rres' = [rres EXCEPT !.err = "read", !.reads = @ + 1]
    /\ rpc' = "done"
    /\ UNCHANGED <<turn, intBits, frame, stream, hdr, mgrVars, cdVars, ndVars, msgVars>>

NextRead ==
    \/ ReadHeader
    \/ ReadHeaderFail
    \/ ReadLength
    \/ ReadPayload
    \/ ReadPayloadFail

SpecRead == InitRead /\ [][NextRead]_vars

(***************************************************************************)
(* One connection over several exchanges, byte by byte: one goroutine      *)
(* calls SendMessage again and again, and the peer answers every request   *)
(* with one well-formed frame, as the server of the tests does. The bytes  *)
(* a readResponse leaves on the connection are the first bytes the next    *)
(* readResponse reads.                                                     *)
(***************************************************************************)
InitStream ==
    /\ turn = 0
    /\ intBits \in {32, 64}
    /\ frame = <<>>
    /\ stream = <<>>
    /\ rpc = "ready"
    /\ hdr = <<>>
    /\ rres = NoRes
    /\ MgrOff
    /\ CdIdle
    /\ MsgIdle

\* the next SendMessage: the request with the next id is written, the peer answers it
\* with a frame of its own, and readResponse begins
Exchange ==
    /\ rpc \in {"ready", "done"}
    /\ rres.err # "read"
    /\ turn < MaxOps
    /\ turn' = turn + 1
    /\ \E payload \in Payloads :
         /\ frame' = [MessageLength |-> HeaderSize + Len(payload), RequestID |-> 1,
                      ResponseTo |-> turn + 1, OpCode |-> OpMsg, payload |-> payload]
         /\ stream' = stream \o serializeHeader(frame') \o payload
    /\ rpc' = "start"
    /\ hdr' = <<>>
    /\ rres' = NoRes
    /\ UNCHANGED <<intBits, mgrVars, cdVars, ndVars, msgVars>>

NextStream ==
    \/ Exchange
    \/ ReadHeader
    \/ ReadHeaderFail
    \/ ReadLength
    \/ ReadPayload
    \/ ReadPayloadFail

SpecStream == InitStream /\ [][NextStream]_vars

(***************************************************************************)
(* Building a request. SendQuery and SendCommand assemble an OP_MSG        *)
(* payload in a bytes.Buffer and hand it to SendMessage with OpMsg;        *)
(* SendMessage takes the next request id and calls sendRequest, which      *)
(* puts the header in front and gives the message to conn.Write. A         *)
(* [][]byte is nil or a list of documents; len is 0 for both nil and the   *)
(* empty list.                                                             *)
(***************************************************************************)
\* len(documents)
GoLen(documents) == Len(documents.elems)

\* the document lists a caller may pass: nil, or up to MaxDocs documents
DocumentLists ==
    {[isNil |-> TRUE, elems |-> <<>>]}
        \cup {[isNil |-> FALSE, elems |-> d] : d \in UNION {[1..n -> Payloads] : n \in 0..MaxDocs}}

\* binary.Write(&payload, binary.LittleEndian, uint32(0)): the flag bits
FlagBits == PutUint32(Big(0))

\* faulty variant: the kind byte of the body section is left out
SendQueryPayloadNoKind(query) == FlagBits \o query

\* the payload SendQuery builds: flag bits, kind 0, the query
SendQueryPayload(query) == FlagBits \o <<0>> \o query

\* identifier := "documents", as bytes
Identifier == <<100, 111, 99, 117, 109, 101, 110, 116, 115>>

\* a + b on int32 for b >= 0: two's complement
Int32Add(a, b) == IF a > MaxInt32 - b THEN MinInt32 + ((b - 1) - (MaxInt32 - a)) ELSE a + b

RECURSIVE SumDocs(_, _)
\* for _, doc := range documents { totalSize += int32(len(doc)) }
SumDocs(totalSize, docs) ==
    IF docs = <<>> THEN totalSize
    ELSE SumDocs(Int32Add(totalSize, Len(Head(docs))), Tail(docs))

\* faulty variant: the size field itself is not counted
TotalSizeNoField(docs) == SumDocs(Int32Add(0, Len(Identifier) + 1), docs)

\* var totalSize int32 = 4, plus the identifier with its terminator, plus every document
TotalSize(docs) == SumDocs(Int32Add(4, Len(Identifier) + 1), docs)

RECURSIVE WriteDocs(_)
\* for _, doc := range documents { payload.Write(doc) }
WriteDocs(docs) == IF docs = <<>> THEN <<>> ELSE Head(docs) \o WriteDocs(Tail(docs))

\* faulty variant: the test is documents != nil
HasDocumentsNotNil(documents) == ~documents.isNil

\* if len(documents) > 0
HasDocuments(documents) == GoLen(documents) > 0

\* the payload SendCommand builds: flag bits, kind 0, the command, and for a
\* non-empty document list a kind 1 section
SendCommandPayload(command, documents) ==
    LET body == FlagBits \o <<0>> \o command
    IN IF HasDocuments(documents)
       THEN body \o <<1>>
                 \o PutUint32(ToUint32(Big(TotalSize(documents.elems))))
                 \o Identifier \o <<0>>
                 \o WriteDocs(documents.elems)
       ELSE body

\* faulty variant: the header and the payload are written one after the other
sendRequestTwoWrites(opCode, id, payload) ==
    <<serializeHeader([MessageLength |-> HeaderSize + Len(payload), RequestID |-> id,
                       ResponseTo |-> 0, OpCode |-> opCode]),
      payload>>

\* sendRequest(conn, opCode, requestID, payload): the buffers it gives to conn.Write
sendRequest(opCode, id, payload) ==
    LET header == [MessageLength |-> HeaderSize + Len(payload), RequestID |-> id,
                   ResponseTo |-> 0, OpCode |-> opCode]
        headerBytes == serializeHeader(header)
        message == headerBytes \o payload
    IN <<message>>

\* the values r.requestID may have when the call begins
Counters == {-2, 0, MaxInt32}

\* the calls: SendMessage(opCode, payload), SendQuery(query), SendCommand(command, documents)
MsgCalls ==
    [api : {"SendMessage"}, opCode : {OpQuery, OpMsg}, body : Payloads,
     documents : {[isNil |-> TRUE, elems |-> <<>>]}, counter : Counters]
        \cup [api : {"SendQuery"}, opCode : {0}, body : Payloads,
              documents : {[isNil |-> TRUE, elems |-> <<>>]}, counter : Counters]
        \cup [api : {"SendCommand"}, opCode : {0}, body : Payloads,
              documents : DocumentLists, counter : Counters]

InitMsg ==
    /\ mcall \in MsgCalls
    /\ msg = <<>>
    /\ mwrites = <<>>
    /\ mpc = "call"
    /\ MgrOff
    /\ RdIdle
    /\ CdIdle

\* SendMessage(ctx, opCode, payload) called directly
MsgSendMessage ==
    /\ mpc = "call"
    /\ mcall.api = "SendMessage"
    /\ msg' = [opCode |-> mcall.opCode, payload |-> mcall.body, requestID |-> 0]
    /\ mpc' = "send"
    /\ UNCHANGED <<mcall, mwrites, mgrVars, rdVars, cdVars, ndVars>>

\* SendQuery: return r.SendMessage(ctx, OpMsg, payload.Bytes())
MsgSendQuery ==
    /\ mpc = "call"
    /\ mcall.api = "SendQuery"
    /\ msg' = [opCode |-> OpMsg, payload |-> SendQueryPayload(mcall.body), requestID |-> 0]
    /\ mpc' = "send"
    /\ UNCHANGED <<mcall, mwrites, mgrVars, rdVars, cdVars, ndVars>>

\* SendCommand: return r.SendMessage(ctx, OpMsg, payload.Bytes())
MsgSendCommand ==
    /\ mpc = "call"
    /\ mcall.api = "SendCommand"
    /\ msg' = [opCode |-> OpMsg, payload |-> SendCommandPayload(mcall.body, mcall.documents),
               requestID |-> 0]
    /\ mpc' = "send"
    /\ UNCHANGED <<mcall, mwrites, mgrVars, rdVars, cdVars, ndVars>>

\* SendMessage with a connection: r.requestID++; requestID := r.requestID; sendRequest(...)
MsgSendRequest ==
    /\ mpc = "send"
    /\ LET id == Int32Inc(mcall.counter)
       IN /\ msg' = [msg EXCEPT !.requestID = id]
          /\ mwrites' = sendRequest(msg.opCode, id, msg.payload)
    /\ mpc' = "sent"
    /\ UNCHANGED <<mcall, mgrVars, rdVars, cdVars, ndVars>>

NextMsg ==
    \/ MsgSendMessage
    \/ MsgSendQuery
    \/ MsgSendCommand
    \/ MsgSendRequest

SpecMsg == InitMsg /\ [][NextMsg]_vars

(***************************************************************************)
(* Sequential use: one goroutine. The Replset is new, or has made          *)
(* MaxInt32 - 1 requests one after the other and was then disconnected.    *)
(***************************************************************************)
\* the Replset after `b` requests made one after the other and a Disconnect
Aged(ns, b) ==
    /\ nodes = ns
    /\ conns = EmptyMap
    /\ requestID = b
    /\ mu = [writer |-> NoOne, readers |-> {}, pending |-> {}]

InitSeq ==
    /\ \/ base = 0 /\ \E ns \in NodeLists : NewReplset(ns)
       \/ base = MaxInt32 - 1 /\ \E ns \in NodeLists : Aged(ns, base)
    /\ MgrIdle
    /\ RdIdle
    /\ CdIdle
    /\ NdIdle
    /\ MsgIdle

NextSeq ==
    \/ \E c \in SeqCallers : ConnectCall(c)
    \/ \E c \in SeqCallers : DisconnectCall(c)
    \/ \E c \in SeqCallers : LockAcquire(c)
    \/ \E c \in SeqCallers : ConnectDialOk(c)
    \/ \E c \in SeqCallers : ConnectDialFail(c)
    \/ \E c \in SeqCallers : ConnectReturn(c)
    \/ \E c \in SeqCallers : DisconnectClose(c)
    \/ \E c \in SeqCallers : SendCall(c)
    \/ \E c \in SeqCallers : RLockAcquire(c)
    \/ \E c \in SeqCallers : SendCheck(c)
    \/ \E c \in SeqCallers : SendIncStore(c)
    \/ \E c \in SeqCallers : SendIdLoad(c)
    \/ \E c \in SeqCallers : SendWriteOk(c)
    \/ \E c \in SeqCallers : SendWriteFail(c)
    \/ \E s \in DOMAIN socks : PeerReply(s)
    \/ \E c \in SeqCallers : SendReadOk(c)
    \/ \E c \in SeqCallers : SendReadFail(c)
    \/ \E c \in SeqCallers : Return(c)

SpecSeq == InitSeq /\ [][NextSeq]_vars

(***************************************************************************)
(* GetNodes. A slice is a view of a backing array: the slice GetNodes      *)
(* returns has an array of its own (make, copy), and a write through a     *)
(* slice changes the array it views. One goroutine calls the Replset and   *)
(* writes to the slices it was handed.                                     *)
(***************************************************************************)
\* the value a caller overwrites an element with: no address of the model
Scribble == "x"

\* faulty variant: return r.nodes, a view of the Replset's own array
GetNodesLive == [own |-> FALSE, elems |-> <<>>]

\* nodes := make([]string, len(r.nodes)); copy(nodes, r.nodes); return nodes
GetNodes == [own |-> TRUE, elems |-> nodes]

\* the elements a handed slice shows now
Elems(slice) == IF slice.own THEN slice.elems ELSE nodes

\* GetNodes is called: r.mu.RLock() begins
GetNodesCall(c) ==
    /\ StartCall(c, "GetNodes")
    /\ pc' = [pc EXCEPT ![c] = "rlock"]
    /\ UNCHANGED <<conns, requestID, mu, socks, lastCall, written>>
    /\ MgrOnly

\* the copy is made and returned; the deferred r.mu.RUnlock() runs
GetNodesCopy(c) ==
    /\ pc[c] = "copy"
    /\ handed' = Append(handed, GetNodes)
    /\ mu' = RUnlocked(c)
    /\ pc' = [pc EXCEPT ![c] = "done"]
    /\ UNCHANGED <<nodes, conns, requestID, socks, loc, ops, lastCall, base, written, given>>
    /\ UNCHANGED <<rdVars, cdVars, msgVars>>

\* between its calls the caller overwrites an element of a slice it was handed
WriteHanded(c) ==
    /\ pc[c] = "idle"
    /\ \E k \in 1..Len(handed) :
         \E i \in 1..Len(Elems(handed[k])) :
            /\ Elems(handed[k])[i] # Scribble
            /\ IF handed[k].own
               THEN /\ handed' = [handed EXCEPT ![k].elems[i] = Scribble]
                    /\ nodes' = nodes
               ELSE /\ handed' = handed
                    /\ nodes' = [nodes EXCEPT ![i] = Scribble]
    /\ UNCHANGED <<conns, requestID, mu, socks, pc, loc, ops, lastCall, base, written, given>>
    /\ UNCHANGED <<rdVars, cdVars, msgVars>>

NextNodes ==
    \/ \E c \in SeqCallers : ConnectCall(c)
    \/ \E c \in SeqCallers : DisconnectCall(c)
    \/ \E c \in SeqCallers : LockAcquire(c)
    \/ \E c \in SeqCallers : ConnectDialOk(c)
    \/ \E c \in SeqCallers : ConnectDialFail(c)
    \/ \E c \in SeqCallers : ConnectReturn(c)
    \/ \E c \in SeqCallers : DisconnectClose(c)
    \/ \E c \in SeqCallers : SendCall(c)
    \/ \E c \in SeqCallers : GetNodesCall(c)
    \/ \E c \in SeqCallers : RLockAcquire(c)
    \/ \E c \in SeqCallers : GetNodesCopy(c)
    \/ \E c \in SeqCallers : WriteHanded(c)
    \/ \E c \in SeqCallers : SendCheck(c)
    \/ \E c \in SeqCallers : SendIncStore(c)
    \/ \E c \in SeqCallers : SendIdLoad(c)
    \/ \E c \in SeqCallers : SendWriteOk(c)
    \/ \E c \in SeqCallers : SendWriteFail(c)
    \/ \E s \in DOMAIN socks : PeerReply(s)
    \/ \E c \in SeqCallers : SendReadOk(c)
    \/ \E c \in SeqCallers : SendReadFail(c)
    \/ \E c \in SeqCallers : Return(c)

SpecNodes == Init /\ [][NextNodes]_vars

(***************************************************************************)
(* The whole interface: goroutines calling Connect, Disconnect,            *)
(* SendMessage, GetNodes and IsConnected concurrently.                     *)
(***************************************************************************)
\* IsConnected is called: r.mu.RLock() begins
IsConnectedCall(c) ==
    /\ StartCall(c, "IsConnected")
    /\ pc' = [pc EXCEPT ![c] = "rlock"]
    /\ UNCHANGED <<conns, requestID, mu, socks, lastCall, written>>
    /\ MgrOnly

\* return len(r.conns) > 0; the deferred r.mu.RUnlock() runs
IsConnectedReturn(c) ==
    /\ pc[c] = "isconn"
    /\ loc' = [loc EXCEPT ![c].empty = ~IsConnected]
    /\ mu' = RUnlocked(c)
    /\ pc' = [pc EXCEPT ![c] = "done"]
    /\ UNCHANGED <<conns, requestID, socks, ops, lastCall, written>>
    /\ MgrOnly

NextApi ==
    \/ \E c \in Callers : ConnectCall(c)
    \/ \E c \in Callers : DisconnectCall(c)
    \/ \E c \in Callers : LockAcquire(c)
    \/ \E c \in Callers : ConnectDialOk(c)
    \/ \E c \in Callers : ConnectDialFail(c)
    \/ \E c \in Callers : ConnectReturn(c)
    \/ \E c \in Callers : DisconnectClose(c)
    \/ \E c \in Callers : SendCall(c)
    \/ \E c \in Callers : GetNodesCall(c)
    \/ \E c \in Callers : IsConnectedCall(c)
    \/ \E c \in Callers : RLockAcquire(c)
    \/ \E c \in Callers : GetNodesCopy(c)
    \/ \E c \in Callers : IsConnectedReturn(c)
    \/ \E c \in Callers : SendCheck(c)
    \/ \E c \in Callers : SendIncStore(c)
    \/ \E c \in Callers : SendIdLoad(c)
    \/ \E c \in Callers : SendWriteOk(c)
    \/ \E c \in Callers : SendWriteFail(c)
    \/ \E s \in DOMAIN socks : PeerReply(s)
    \/ \E c \in Callers : SendReadOk(c)
    \/ \E c \in Callers : SendReadFail(c)
    \/ \E c \in Callers : Return(c)

SpecApi == Init /\ [][NextApi]_vars

(***************************************************************************)
(* The claims about the Replset.                                           *)
(***************************************************************************)

\* C1: when Connect has dialed K addresses and the (K+1)-th dial fails, then as
\* Connect returns every socket opened during the call has been closed, the map
\* is empty, the error names the (K+1)-th address and no later address was dialed.
C1_ConnectRollsBack ==
    [][\A c \in Callers :
         (pc[c] = "dial" /\ pc'[c] = "done" /\ loc'[c].err = "dial") =>
            LET K == Cardinality(loc'[c].opened) IN
            /\ \A s \in loc'[c].opened : socks'[s].closed
            /\ conns' = EmptyMap
            /\ loc'[c].errNode = nodes[K + 1]
            /\ loc'[c].io = K + 1]_vars

\* C2 as claimed: whenever no Connect or Disconnect is under way, IsConnected is
\* true exactly when the most recent of those calls was a Connect that returned nil.
C2_ConnectedIffLastConnectOk ==
    mu.writer = NoOne => (IsConnected <=> lastCall = "connect_ok")

\* C2 as amended: whenever no Connect or Disconnect is under way, IsConnected is
\* true exactly when the most recent of those calls was a Connect that returned nil
\* and the node list is not empty.
C2_ConnectedIffLastConnectOkNonEmpty ==
    mu.writer = NoOne => (IsConnected <=> (lastCall = "connect_ok" /\ Len(nodes) > 0))

\* a successful Connect that follows a Disconnect
C2_Witness ==
    /\ mu.writer = NoOne
    /\ lastCall = "connect_ok"
    /\ IsConnected
    /\ ops = MaxOps
    /\ \E s \in DOMAIN socks : socks[s].closed

\* C3: no two callers have a request outstanding (written, response not yet read)
\* on the same connection, and a caller whose SendMessage succeeds has read the
\* response to its own request.
C3_OneOutstandingRequest ==
    /\ \A c1, c2 \in Callers :
         (c1 # c2 /\ pc[c1] = "read" /\ pc[c2] = "read") => loc[c1].conn # loc[c2].conn
    /\ \A c \in Callers :
         (pc[c] = "done" /\ loc[c].op = "SendMessage" /\ loc[c].err = NoErr) => loc[c].resp = c

\* the SendMessage calls that have passed the connection check
Passed ==
    Len(written) + Cardinality({c \in Callers : pc[c] \in {"inc_store", "id_load", "write"}})

\* C4: no two requests carry the same request id, and once the n calls that passed
\* the connection check have all incremented the counter, the counter is n.
C4_NoLostIncrement ==
    /\ \A i, j \in DOMAIN written : i # j => written[i] # written[j]
    /\ (\A c \in Callers : pc[c] # "inc_store") => requestID = Passed

\* C5: a SendMessage that finds the connection set empty returns the "no
\* connections" error at once, and has done no dial, no write and no read.
C5_NoConnectionNoIO ==
    \A c \in Callers :
        (loc[c].op = "SendMessage" /\ loc[c].empty) =>
            /\ pc[c] = "done"
            /\ loc[c].err = "noconn"
            /\ loc[c].io = 0
            /\ loc[c].conn = NoSock

\* a SendMessage that failed so after a Connect was rolled back
C5_Witness ==
    \E c \in Callers :
        /\ pc[c] = "done"
        /\ loc[c].op = "SendMessage"
        /\ loc[c].empty
        /\ loc[c].err = "noconn"
        /\ lastCall = "connect_err"

\* the node whose Close failed last, in the order the loop visited the map
LastFailure(order, fails) ==
    order[CHOOSE i \in DOMAIN order :
            order[i] \in fails /\ \A j \in DOMAIN order : j > i => order[j] \notin fails]

\* C8: as Disconnect returns, Close has been called on every socket that was in the
\* map, the map is empty, and the result is nil if no Close failed and otherwise
\* the error of the last Close that failed.
C8_DisconnectClosesAll ==
    [][\A c \in Callers :
         (pc[c] = "close" /\ pc'[c] = "done") =>
            /\ conns' = EmptyMap
            /\ \A a \in DOMAIN conns : socks'[conns[a]].closed
            /\ (loc'[c].fails = {} => loc'[c].err = NoErr)
            /\ (loc'[c].fails # {} =>
                    /\ loc'[c].err = "close"
                    /\ loc'[c].errNode = LastFailure(loc'[c].order, loc'[c].fails))]_vars

\* a Disconnect of two connections where the first Close failed
C8_Witness ==
    \E c \in Callers :
        /\ pc[c] = "done"
        /\ loc[c].op = "Disconnect"
        /\ Len(loc[c].order) = 2
        /\ loc[c].order[1] \in loc[c].fails
        /\ \A s \in DOMAIN socks : socks[s].closed
        /\ conns = EmptyMap

\* n requests after `b` earlier ones, as a signed 32-bit number
IdOf(b, n) == IF b <= MaxInt32 - n THEN b + n ELSE MinInt32 + ((n - 1) - (MaxInt32 - b))

\* C9: in sequential use the counter starts at 0, the n-th request since
\* construction carries the id n, and the request after id MaxInt32 carries MinInt32.
C9_SequentialRequestIds ==
    /\ \A i \in DOMAIN written : written[i] = IdOf(base, i)
    /\ (\A c \in Callers : pc[c] # "inc_store") => requestID = IdOf(base, Passed)
    /\ \A i \in DOMAIN written :
         (i > 1 /\ written[i - 1] = MaxInt32) => written[i] = MinInt32
    /\ (base = 0 /\ written # <<>>) => written[1] = 1

\* the counter has wrapped: a request with id MaxInt32, then one with id MinInt32
C9_Witness ==
    /\ Len(written) >= 2
    /\ written[1] = MaxInt32
    /\ written[2] = MinInt32

(***************************************************************************)
(* The claims about the transport and the codec.                           *)
(***************************************************************************)

\* C6: a response whose header was read in full and whose messageLength, as a
\* signed 32-bit number, is below 16 ends readResponse with the framing error,
\* with no payload buffer allocated and no payload read.
C6_ShortLengthIsFramingError ==
    (rpc \in {"payload", "done"} /\ rres.hn = HeaderSize /\ frame.MessageLength < HeaderSize) =>
        /\ rpc = "done"
        /\ rres.err = "framing"
        /\ ~rres.alloc
        /\ rres.reads = 0

\* the payload readResponse returns: the buffer of payloadSize zero bytes, its
\* first pn bytes overwritten by what conn.Read delivered
ReturnsPayload(payload) ==
    /\ rres.payloadSize = Big(Len(payload))
    /\ \A i \in 1..Len(payload) : payload[i] = IF i <= Len(rres.got) THEN rres.got[i] ELSE 0

\* C7: for a well-formed frame, however its bytes are split across the reads, a
\* readResponse that returns without error has consumed the 16 header bytes and
\* the messageLength - 16 payload bytes, and returns the payload the peer sent.
C7_ReadsWholeFrame ==
    (rpc = "done" /\ rres.err = NoErr /\ frame.MessageLength = HeaderSize + Len(frame.payload)) =>
        /\ rres.hn = HeaderSize
        /\ rres.pn = Len(frame.payload)
        /\ stream = <<>>
        /\ ReturnsPayload(frame.payload)

\* C18: readResponse does not compare the header of the response with the
\* request: for a well-formed frame, whatever its requestID, responseTo and
\* opCode, a readResponse whose reads did not fail ends without error and
\* returns the payload of the frame.
C18_NoCrossCheck ==
    (rpc = "done" /\ rres.err # "read" /\ frame.MessageLength = HeaderSize + Len(frame.payload)) =>
        /\ rres.err = NoErr
        /\ ReturnsPayload(frame.payload)

\* C10 as claimed: each field decoded from the 16 bytes is the number the header held.
C10_RoundTripNumbers ==
    cpc = "parsed" =>
        /\ hout.messageLength = Big(hin.MessageLength)
        /\ hout.requestID = Big(hin.RequestID)
        /\ hout.responseTo = Big(hin.ResponseTo)
        /\ hout.opCode = Big(hin.OpCode)

\* C10 as amended: the 16 bytes are the four fields in order, and each decoded field
\* is the 32-bit word of the header's field: it equals uint32(field), and int32 of it
\* is the field.
C10_RoundTripWords ==
    cpc = "parsed" =>
        /\ Len(wire) = HeaderSize
        /\ hout.messageLength = ToUint32(Big(hin.MessageLength))
        /\ hout.requestID = ToUint32(Big(hin.RequestID))
        /\ hout.responseTo = ToUint32(Big(hin.ResponseTo))
        /\ hout.opCode = ToUint32(Big(hin.OpCode))
        /\ ToInt32(hout.messageLength) = Big(hin.MessageLength)
        /\ ToInt32(hout.requestID) = Big(hin.RequestID)
        /\ ToInt32(hout.responseTo) = Big(hin.ResponseTo)
        /\ ToInt32(hout.opCode) = Big(hin.OpCode)

\* a header with a negative request id and four different bytes in a field, decoded
C10_Witness ==
    /\ cpc = "parsed"
    /\ hin.RequestID = MinInt32
    /\ hin.ResponseTo = 305419896
    /\ hin.OpCode = OpMsg
    /\ hout.requestID # Big(hin.RequestID)

(***************************************************************************)
(* The claims about the bytes of a request.                                *)
(***************************************************************************)
\* the payload has been built and handed to SendMessage
Built(api) == mpc \in {"send", "sent"} /\ mcall.api = api

\* C11: the payload SendQuery hands to SendMessage for a query q is exactly
\* four zero bytes of flag bits, one byte 0x00 for the section kind, then the
\* bytes of q unchanged and nothing after them: 5 + len(q) bytes in all.
C11_SendQueryPayload ==
    Built("SendQuery") =>
        LET q == mcall.body
            p == msg.payload
        IN /\ Len(p) = 5 + Len(q)
           /\ \A i \in 1..5 : p[i] = 0
           /\ \A i \in 1..Len(q) : p[5 + i] = q[i]

C11_Witness ==
    /\ Built("SendQuery")
    /\ mpc = "sent"
    /\ Len(mcall.body) >= 2
    /\ mcall.body[1] # mcall.body[2]

\* the sum of the lengths of the first j documents
RECURSIVE LenUpTo(_, _)
LenUpTo(docs, j) == IF j = 0 THEN 0 ELSE LenUpTo(docs, j - 1) + Len(docs[j])

\* C12: for a non-empty document list d1..dn, the payload SendCommand builds
\* is the kind 0 part (four zero bytes, 0x00, the command c) followed by one
\* kind 1 section: the byte 0x01, a little-endian 32-bit size of
\* 4 + 10 + sum of len(di), the bytes of "documents" and a null byte, then
\* d1..dn in order. The declared size is the number of bytes from the size
\* field to the end of the payload.
C12_DocumentSequence ==
    (Built("SendCommand") /\ GoLen(mcall.documents) > 0) =>
        LET c == mcall.body
            d == mcall.documents.elems
            p == msg.payload
            k == 5 + Len(c)
            total == LenUpTo(d, Len(d))
        IN /\ Len(p) = k + 1 + 4 + 10 + total
           /\ \A i \in 1..5 : p[i] = 0
           /\ SubSeq(p, 6, k) = c
           /\ p[k + 1] = 1
           /\ Uint32(SubSeq(p, k + 2, k + 5)) = Big(4 + 10 + total)
           /\ Uint32(SubSeq(p, k + 2, k + 5)) = Big(Len(p) - (k + 1))
           /\ SubSeq(p, k + 6, k + 14) = <<100, 111, 99, 117, 109, 101, 110, 116, 115>>
           /\ p[k + 15] = 0
           /\ \A j \in 1..Len(d) :
                SubSeq(p, k + 15 + LenUpTo(d, j - 1) + 1, k + 15 + LenUpTo(d, j)) = d[j]

C12_Witness ==
    /\ Built("SendCommand")
    /\ mpc = "sent"
    /\ Len(mcall.body) >= 1
    /\ Len(mcall.documents.elems) >= 2
    /\ Len(mcall.documents.elems[1]) = 1
    /\ Len(mcall.documents.elems[2]) = 2
    /\ mcall.documents.elems[1][1] # mcall.documents.elems[2][1]

\* C13: for an empty or nil document list SendCommand builds, byte for byte,
\* the payload SendQuery builds for the same bytes; the payload goes on past
\* the command, with the byte 0x01, exactly when the list has an element.
C13_NoDocumentsNoSection ==
    Built("SendCommand") =>
        LET c == mcall.body
            p == msg.payload
            section == Len(p) > 5 + Len(c)
        IN /\ GoLen(mcall.documents) = 0 => p = SendQueryPayload(c)
           /\ section <=> GoLen(mcall.documents) >= 1
           /\ section => p[5 + Len(c) + 1] = 1

C13_Witness ==
    /\ Built("SendCommand")
    /\ mpc = "sent"
    /\ ~mcall.documents.isNil
    /\ mcall.documents.elems = <<>>
    /\ Len(mcall.body) >= 1

\* C15: a request is one write of a 16-byte header followed by the payload;
\* the header carries messageLength = 16 + len(payload), the request id taken
\* from the counter for this call, responseTo = 0 and the caller's opCode,
\* which is 2013 for SendQuery and SendCommand.
C15_RequestFrame ==
    mpc = "sent" =>
        /\ Len(mwrites) = 1
        /\ LET message == mwrites[1]
               h == ParseHeader(SubSeq(message, 1, 16))
           IN /\ Len(message) = 16 + Len(msg.payload)
              /\ SubSeq(message, 17, Len(message)) = msg.payload
              /\ h.messageLength = Big(16 + Len(msg.payload))
              /\ ToInt32(h.requestID) = Big(Int32Inc(mcall.counter))
              /\ h.responseTo = Big(0)
              /\ h.opCode = Big(IF mcall.api = "SendMessage" THEN mcall.opCode ELSE 2013)

C15_Witness ==
    /\ mpc = "sent"
    /\ mcall.api = "SendMessage"
    /\ mcall.opCode = OpQuery
    /\ mcall.counter = MaxInt32
    /\ Len(msg.payload) >= 2

(***************************************************************************)
(* The claims about GetNodes, the I/O of a call and the sockets.           *)
(***************************************************************************)
\* C14: whatever Connect, Disconnect and SendMessage calls came before, the
\* list GetNodes returns equals the list given at construction, element by
\* element; the returned list is a copy: writing to it changes neither what
\* a later GetNodes returns nor the addresses a later Connect dials.
C14_GetNodesCopy ==
    /\ nodes = given
    /\ \A c \in SeqCallers :
         (pc[c] = "done" /\ loc[c].op = "GetNodes") =>
             /\ handed[Len(handed)].own
             /\ Elems(handed[Len(handed)]) = given
    /\ \A s \in DOMAIN socks : \E i \in 1..Len(given) : socks[s].addr = given[i]

\* a slice was written to, then GetNodes returned again and Connect dialed
C14_Witness ==
    /\ Len(handed) >= 2
    /\ \E i \in 1..Len(given) : Elems(handed[1])[i] # given[i]
    /\ pc["g1"] = "dial"
    /\ socks # <<>>

\* C16: a SendMessage call on a connected Replset does its I/O on one
\* connection, a value of the map: the request is written to it and after
\* that the response is read from it, one write and one read at most, and no
\* step of the call writes to or reads from any other socket.
C16_OneConnectionPerCall ==
    [][\A c \in Callers :
         (loc[c].op = "SendMessage" /\ loc'[c].io = loc[c].io + 1) =>
             /\ \E a \in DOMAIN conns : conns[a] = loc[c].conn
             /\ pc[c] \in {"write", "read"}
             /\ pc[c] = "write" => loc[c].io = 0
             /\ pc[c] = "read" => loc[c].io = 1
             /\ DOMAIN socks' = DOMAIN socks
             /\ \A s \in DOMAIN socks : s # loc[c].conn => socks'[s] = socks[s]]_vars

\* a call has written and read while the map holds two connections, the
\* other one with a response waiting on it
C16_Witness ==
    \E c \in Callers :
        /\ loc[c].op = "SendMessage"
        /\ pc[c] = "done"
        /\ loc[c].err = NoErr
        /\ loc[c].io = 2
        /\ \E a \in DOMAIN conns :
             /\ conns[a] # loc[c].conn
             /\ socks[conns[a]].resp # <<>>

\* C17: when the write or the read of a SendMessage call fails, the call
\* returns the error after that one attempt: nothing is dialed, after a
\* failed write nothing is read, and the map is as it was, the failed
\* connection still in it and IsConnected still true. The map changes only
\* in a step of Connect or Disconnect.
C17_FailureLeavesConnections ==
    [][/\ \A c \in Callers :
            (/\ loc[c].op = "SendMessage"
             /\ pc[c] \in {"write", "read"}
             /\ pc'[c] = "done"
             /\ loc'[c].err # NoErr) =>
                /\ loc'[c].io = (IF pc[c] = "write" THEN 1 ELSE 2)
                /\ DOMAIN socks' = DOMAIN socks
                /\ conns' = conns
                /\ \E a \in DOMAIN conns' : conns'[a] = loc[c].conn
                /\ Cardinality(DOMAIN conns') > 0
       /\ conns' # conns =>
            \E c \in Callers : mu.writer = c /\ loc[c].op \in {"Connect", "Disconnect"}]_vars

\* a call has returned a read error, and the lost connection is still in the map
C17_Witness ==
    \E c \in Callers :
        /\ loc[c].op = "SendMessage"
        /\ pc[c] = "done"
        /\ loc[c].err = "read"
        /\ socks[loc[c].conn].broken
        /\ \E a \in DOMAIN conns : conns[a] = loc[c].conn
        /\ IsConnected

\* C19: whenever no Connect or Disconnect is under way, every socket that
\* was dialed and not closed is a value of the map, and the map holds for
\* each of its addresses one open socket to that address.
C19_NoLeakedSockets ==
    (mu.writer = NoOne) =>
        /\ \A s \in DOMAIN socks :
             ~socks[s].closed => \E a \in DOMAIN conns : conns[a] = s
        /\ \A a \in DOMAIN conns :
             ~socks[conns[a]].closed /\ socks[conns[a]].addr = a

\* a SendMessage call between choosing its connection and returning
InFlight(c) ==
    loc[c].op = "SendMessage" /\ pc[c] \in {"inc_store", "id_load", "write", "read"}

\* C20: from the step in which a SendMessage call chooses its connection to
\* the step in which it returns, the call holds the shared lock, no goroutine
\* holds the exclusive lock, the map does not change, and the chosen
\* connection is a value of the map and not closed.
C20_NoTeardownInFlight ==
    [][\A c \in Callers :
         InFlight(c)' =>
             /\ mu'.writer = NoOne
             /\ c \in mu'.readers
             /\ \E a \in DOMAIN conns' : conns'[a] = loc'[c].conn
             /\ ~socks'[loc'[c].conn].closed
             /\ InFlight(c) => (conns' = conns /\ loc'[c].conn = loc[c].conn)]_vars

\* a call waits for its response while a Connect or Disconnect waits for the lock
C20_Witness ==
    \E c, d \in Callers :
        /\ InFlight(c)
        /\ pc[c] = "read"
        /\ pc[d] = "lock"
        /\ d \in mu.pending

(***************************************************************************)
(* The claims about what readers see, the stream of responses, blocking    *)
(* and the counter.                                                        *)
(***************************************************************************)
\* the addresses of the node list
Configured == {nodes[i] : i \in 1..Len(nodes)}

\* C21: whenever a goroutine holds the read lock, in IsConnected or in
\* SendMessage, whatever Connect calls are under way, the map is empty or
\* holds a connection for every configured address: no reader sees a map with
\* only some of the configured addresses.
C21_NoPartialConnect ==
    \A c \in Callers :
        (c \in mu.readers /\ loc[c].op \in {"IsConnected", "SendMessage"}) =>
            (DOMAIN conns = {} \/ DOMAIN conns = Configured)

\* IsConnected looks at a map of two connections while a Connect waits for the lock
C21_Witness ==
    \E c, d \in Callers :
        /\ loc[c].op = "IsConnected"
        /\ pc[c] = "isconn"
        /\ Cardinality(DOMAIN conns) = 2
        /\ loc[d].op = "Connect"
        /\ pc[d] = "lock"

\* C22: on one connection whose peer answers each request with one
\* well-formed frame, every SendMessage that returns without error has read
\* the bytes of its own response frame and no others: nothing of that frame
\* or of an earlier one is left on the connection, and the call returns the
\* payload of the frame sent in answer to it.
C22_FrameAlignment ==
    (turn >= 1 /\ rpc = "done" /\ rres.err = NoErr) =>
        /\ rres.hn + rres.pn = HeaderSize + Len(frame.payload)
        /\ stream = <<>>
        /\ ReturnsPayload(frame.payload)

C24_CounterOnlyInSend ==
    [][/\ requestID' # requestID =>
            \E c \in Callers :
                /\ loc[c].op = "SendMessage"
                /\ pc[c] = "inc_store"
                /\ ~loc[c].empty
       /\ \A c \in Callers :
            (loc[c].op = "SendMessage" /\ pc[c] = "inc_store" /\ pc'[c] # "inc_store") =>
                /\ requestID' = Int32Inc(loc[c].tmp)
                /\ loc[c].io = 0
       /\ \A c \in Callers :
            (/\ loc[c].op = "SendMessage"
             /\ pc[c] \in {"write", "read"}
             /\ pc'[c] = "done"
             /\ loc'[c].err \in {"write", "read"}) =>
                /\ requestID' = requestID
                /\ loc'[c].id = loc[c].id]_vars

\* a SendMessage has failed in its I/O, a Disconnect has returned, and the counter is 1
C24_Witness ==
    \E c, d \in Callers :
        /\ loc[c].op = "SendMessage"
        /\ pc[c] = "done"
        /\ loc[c].err \in {"write", "read"}
        /\ loc[d].op = "Disconnect"
        /\ pc[d] = "done"
        /\ conns = EmptyMap
        /\ requestID = 1

====
